---- MODULE Spec2Model ----
(***************************************************************************)
(* P2POnBevy: a peer-to-peer rollback session (bevy_ggrs) driving a small  *)
(* deterministic simulation: read_local_inputs packs the arrow keys into   *)
(* one byte, handle_players turns each player's byte into a velocity, and  *)
(* velocity_system integrates the velocity into the position.              *)
(*                                                                         *)
(* Units.  A velocity is in px/s as in the code.  A position is kept in    *)
(* units of 1/UPS px, so that `translation += vel * SPU` (SPU = 1/UPS) is  *)
(* the integer addition of vel; f32 rounding is not modelled.              *)
(*                                                                         *)
(* The systems, the registered rollback components and the start-up code   *)
(* are translated from src/src/main.rs.  What the session does between the *)
(* calls (when it predicts, when it rolls back) is not code of the         *)
(* repository; AdvanceFrame and ReceiveRemoteInput follow the procedure    *)
(* the specification gives for it (sections 4.4 and 4.6).                  *)
(***************************************************************************)
EXTENDS Integers, Sequences, FiniteSets, TLC

\* ------------------------------------------------------------- constants
PLAYER_SPEED == 200

UPS == 60

\* set_rollback_schedule_fps(UPS as usize): GgrsSchedule runs per second
RollbackFps == UPS

\* with_max_prediction_window(12)
MAX_PREDICTION == 12

\* declared beside the systems and used by none of them: read_local_inputs
\* shifts by the literals 0, 1, 2, 3 and handle_players reads bits 0, 1, 2, 3
INPUT_UP == 0

INPUT_DOWN == 1

INPUT_RIGHT == 2

INPUT_LEFT == 4

\* the frame value that stands for "no frame"
NULL_FRAME == 0 - 1

\* ---------------------------------------------------------------- bounds
MaxFrame == 3

CodecFrames == 2

\* ------------------------------------------------------------ input sets
Keys == {"ArrowUp", "ArrowDown", "ArrowRight", "ArrowLeft"}

\* the keyboard states the session specification samples
KeyStates == {{}, {"ArrowUp", "ArrowLeft"}}

\* the samples a remote peer sends in the session specification
RemoteSamples == {0, 6, 9}

\* the player lists (opt.players) the program is started with; every entry
\* that is not "localhost" is the address of a remote peer
PlayerLists ==
    {<<>>, <<"localhost">>, <<"localhost", "localhost">>,
     <<"localhost", "remote">>, <<"remote", "localhost">>}

\* ------------------------------------------------------------------ state
VARIABLES
    players,          \* opt.players: the ordered player list
    session,          \* the Session resource: "P2P", or "Panicked" when main stopped before it
    keys,             \* ButtonInput<KeyCode>: the keys pressed at the last ReadInputs
    localInputs,      \* LocalInputs<Config>: handle -> sample
    playerInputs,     \* PlayerInputs<Config>: handle -> <<sample, status>>
    transform,        \* Transform.translation of each player entity
    velocity,         \* Velocity of each player entity
    frame,            \* the session's current frame
    confirmedInputs,  \* per handle, the confirmed samples of frames 0, 1, ...
    usedInputs,       \* per handle, the samples frames 0 .. frame-1 were simulated with
    snaps,            \* saved game states by frame
    firstIncorrect,   \* earliest simulated frame known to be mispredicted
    lastRollback      \* frame loaded by the last AdvanceFrame, or NULL_FRAME

vars == <<players, session, keys, localInputs, playerInputs, transform, velocity, frame,
          confirmedInputs, usedInputs, snaps, firstIncorrect, lastRollback>>

\* ------------------------------------------------------- bit arithmetic
\* (w >> k) & 1 on a u8
Bit(w, k) == (w \div (2 ^ k)) % 2

\* (b << k) on a u8
Shl(b, k) == (b * (2 ^ k)) % 256

\* a | b on u8, bit by bit
BitOrTable ==
    [a \in 0 .. 255 |-> [b \in 0 .. 255 |->
        LET m(k) == IF Bit(a, k) = 1 \/ Bit(b, k) = 1 THEN 2 ^ k ELSE 0
        IN m(0) + m(1) + m(2) + m(3) + m(4) + m(5) + m(6) + m(7)]]

BitOr(a, b) == BitOrTable[a][b]

\* input.pressed(key) as u8
Pressed(ks, key) == IF key \in ks THEN 1 ELSE 0

\* ------------------------------------------------------------ the players
players_num == Len(players)

\* main: assert!(players_num > 0), then start_p2p_session (the only mode main builds)
StartSessionNoAssert(pl) == "P2P"

StartSession(pl) == IF Len(pl) > 0 THEN "P2P" ELSE "Panicked"

Handles == 0 .. (players_num - 1)

\* LocalPlayers: the handles added with PlayerType::Local
LocalPlayers == {i \in Handles : players[i + 1] = "localhost"}

RemotePlayers == Handles \ LocalPlayers

\* ------------------------------------------------------------ the systems
\* the byte read_local_inputs builds from the keyboard
PackBadLeft(ks) ==
    LET up == Pressed(ks, "ArrowUp")
        down == Shl(Pressed(ks, "ArrowDown"), 1)
        right == Shl(Pressed(ks, "ArrowRight"), 2)
        left == Shl(Pressed(ks, "ArrowLeft"), 2)
        ud == BitOr(up, down)
        udr == BitOr(ud, right)
    IN BitOr(udr, left)

PackLeftAtFour(ks) ==
    LET up == Pressed(ks, "ArrowUp")
        down == Shl(Pressed(ks, "ArrowDown"), 1)
        right == Shl(Pressed(ks, "ArrowRight"), 2)
        left == Shl(Pressed(ks, "ArrowLeft"), 4)
        ud == BitOr(up, down)
        udr == BitOr(ud, right)
    IN BitOr(udr, left)

Pack(ks) ==
    LET up == Pressed(ks, "ArrowUp")
        down == Shl(Pressed(ks, "ArrowDown"), 1)
        right == Shl(Pressed(ks, "ArrowRight"), 2)
        left == Shl(Pressed(ks, "ArrowLeft"), 3)
        ud == BitOr(up, down)
        udr == BitOr(ud, right)
    IN BitOr(udr, left)

ReadInputsForAllHandles(ks, locals) == [id \in Handles |-> Pack(ks)]

\* read_local_inputs: one entry per local handle, all from the one keyboard
read_local_inputs(ks, locals) == [id \in locals |-> Pack(ks)]

\* the four bits handle_players extracts from a sample
DecodeBits(wasd) ==
    [up |-> Bit(wasd, 0), down |-> Bit(wasd, 1),
     right |-> Bit(wasd, 2), left |-> Bit(wasd, 3)]

\* the per-axis intents handle_players computes from a sample, for every u8
DecodeAxesTable ==
    [wasd \in 0 .. 255 |->
        [x |-> DecodeBits(wasd).right - DecodeBits(wasd).left,
         y |-> DecodeBits(wasd).up - DecodeBits(wasd).down]]

DecodeAxes(wasd) == DecodeAxesTable[wasd]

HandlePlayersNoMask(vel, inputs) ==
    [p \in DOMAIN vel |->
        [x |-> (Bit(inputs[p][1], 2) - (inputs[p][1] \div 8)) * PLAYER_SPEED,
         y |-> (Bit(inputs[p][1], 0) - Bit(inputs[p][1], 1)) * PLAYER_SPEED]]

\* handle_players: every player's velocity from its sample inputs[player.id].0
handle_players(vel, inputs) ==
    [p \in DOMAIN vel |->
        [x |-> DecodeAxes(inputs[p][1]).x * PLAYER_SPEED,
         y |-> DecodeAxes(inputs[p][1]).y * PLAYER_SPEED]]

\* velocity_system: translation += vel * SPU (positions in 1/UPS px)
VelocityTwice(tr, vel) ==
    [p \in DOMAIN tr |-> [x |-> tr[p].x + 2 * vel[p].x, y |-> tr[p].y + 2 * vel[p].y]]

velocity_system(tr, vel) ==
    [p \in DOMAIN tr |-> [x |-> tr[p].x + vel[p].x, y |-> tr[p].y + vel[p].y]]

\* one run of GgrsSchedule: handle_players, then velocity_system
ScheduleVelocityFirst(st, inputs) ==
    [transform |-> velocity_system(st.transform, st.velocity),
     velocity |-> handle_players(st.velocity, inputs)]

GgrsSchedule(st, inputs) ==
    LET vel == handle_players(st.velocity, inputs)
    IN [transform |-> velocity_system(st.transform, vel), velocity |-> vel]

\* setup: player i starts at x = 100 - 100 * players_num + 200 * i, at rest
setup(n) ==
    [transform |-> [i \in 0 .. (n - 1) |->
                        [x |-> (100 - (100 * n) + (200 * i)) * UPS, y |-> 0]],
     velocity |-> [i \in 0 .. (n - 1) |-> [x |-> 0, y |-> 0]]]

\* the registered rollback components: Transform (clone) and Velocity (copy)
SaveWithoutTransform(tr, vel) ==
    [transform |-> [p \in DOMAIN tr |-> [x |-> 0, y |-> 0]], velocity |-> vel]

SaveGameState(tr, vel) == [transform |-> tr, velocity |-> vel]

LoadKeepsTransform(snap, cur) == [transform |-> cur.transform, velocity |-> snap.velocity]

LoadGameState(snap, cur) == [transform |-> snap.transform, velocity |-> snap.velocity]

\* ------------------------------------------------------------ the session
\* the game state as it is now
World == [transform |-> transform, velocity |-> velocity]

\* the sample repeated for a player whose confirmed sample has not arrived:
\* its most recent confirmed sample, the zeroed InputPacked before the first
Predict(q) == IF Len(q) = 0 THEN 0 ELSE q[Len(q)]

\* the InputFrame of frame t: the confirmed sample where it is known, else a prediction
InputsFor(t, conf) ==
    [p \in DOMAIN conf |->
        IF Len(conf[p]) > t THEN <<conf[p][t + 1], "Confirmed">>
        ELSE <<Predict(conf[p]), "Predicted">>]

\* the store after saving st as frame f: one snapshot per frame, the frames
\* older than f - MAX_PREDICTION dropped
SaveSnap(sn, f, st) ==
    [g \in {h \in (DOMAIN sn) \cup {f} : h >= f - MAX_PREDICTION} |->
        IF g = f THEN st ELSE sn[g]]

\* the samples frame t was simulated with, recorded per handle
SetUsed(used, t, inp) ==
    [p \in DOMAIN used |->
        IF Len(used[p]) > t THEN [used[p] EXCEPT ![t + 1] = inp[p][1]]
        ELSE Append(used[p], inp[p][1])]

\* resimulation: from state st of frame t, save and advance up to frame end
RECURSIVE Resimulate(_, _, _, _, _, _)
Resimulate(st, t, end, conf, sn, used) ==
    IF t >= end THEN [st |-> st, sn |-> sn, used |-> used]
    ELSE LET inputs == InputsFor(t, conf)
         IN Resimulate(GgrsSchedule(st, inputs), t + 1, end, conf,
                       SaveSnap(sn, t, SaveGameState(st.transform, st.velocity)),
                       SetUsed(used, t, inputs))

Init ==
    /\ players \in PlayerLists
    /\ session = StartSession(players)
    /\ keys = {}
    /\ localInputs = <<>>
    /\ playerInputs = <<>>
    /\ transform = setup(players_num).transform
    /\ velocity = setup(players_num).velocity
    /\ frame = 0
    /\ confirmedInputs = [p \in Handles |-> <<>>]
    /\ usedInputs = [p \in Handles |-> <<>>]
    /\ snaps = <<>>
    /\ firstIncorrect = NULL_FRAME
    /\ lastRollback = NULL_FRAME

\* one fixed tick: ReadInputs (read_local_inputs), then the session's requests:
\* a rollback to firstIncorrect when there is one, save, advance by one frame
AdvanceFrame(ks) ==
    LET li == read_local_inputs(ks, LocalPlayers)
        conf == [p \in Handles |->
                    IF p \in LocalPlayers THEN Append(confirmedInputs[p], li[p])
                    ELSE confirmedInputs[p]]
        rb == IF firstIncorrect # NULL_FRAME
              THEN Resimulate(LoadGameState(snaps[firstIncorrect], World),
                              firstIncorrect, frame, conf, snaps, usedInputs)
              ELSE [st |-> World, sn |-> snaps, used |-> usedInputs]
        inputs == InputsFor(frame, conf)
        next == GgrsSchedule(rb.st, inputs)
    IN /\ session = "P2P"
       /\ keys' = ks
       /\ localInputs' = li
       /\ confirmedInputs' = conf
       /\ playerInputs' = inputs
       /\ snaps' = SaveSnap(rb.sn, frame, SaveGameState(rb.st.transform, rb.st.velocity))
       /\ usedInputs' = SetUsed(rb.used, frame, inputs)
       /\ transform' = next.transform
       /\ velocity' = next.velocity
       /\ frame' = frame + 1
       /\ lastRollback' = firstIncorrect
       /\ firstIncorrect' = NULL_FRAME
       /\ UNCHANGED <<players, session>>

\* the confirmed sample of remote player p for its next frame arrives; it is
\* compared with the sample that frame was simulated with
ReceiveRemoteInput(p, v) ==
    LET t == Len(confirmedInputs[p])
    IN /\ session = "P2P"
       /\ p \in RemotePlayers
       /\ t < MaxFrame
       /\ confirmedInputs' = [confirmedInputs EXCEPT ![p] = Append(@, v)]
       /\ firstIncorrect' =
            IF t < frame /\ usedInputs[p][t + 1] # v
                 /\ (firstIncorrect = NULL_FRAME \/ t < firstIncorrect)
            THEN t ELSE firstIncorrect
       /\ UNCHANGED <<players, session, keys, localInputs, playerInputs, transform, velocity,
                      frame, usedInputs, snaps, lastRollback>>

Next ==
    \/ \E ks \in KeyStates : frame < MaxFrame /\ AdvanceFrame(ks)
    \/ \E p \in Handles, v \in RemoteSamples : ReceiveRemoteInput(p, v)

Spec == Init /\ [][Next]_vars

\* the codec and the systems on every keyboard state, no remote traffic
NextCodec == \E ks \in SUBSET Keys : frame < CodecFrames /\ AdvanceFrame(ks)

SpecCodec == Init /\ [][NextCodec]_vars

\* the systems on every byte a peer can send: the first sample of a remote
\* player is any u8, and it is repeated for the frames after it
NextBytes ==
    \/ \E ks \in KeyStates : frame < CodecFrames /\ AdvanceFrame(ks)
    \/ \E p \in Handles, v \in 0 .. 255 :
          Len(confirmedInputs[p]) = 0 /\ ReceiveRemoteInput(p, v)

SpecBytes == Init /\ [][NextBytes]_vars

\* ---------------------------------------------------------------- typing
TypeOK ==
    /\ players \in PlayerLists
    /\ session \in {"P2P", "Panicked"}
    /\ keys \subseteq Keys
    /\ frame \in 0 .. MaxFrame
    /\ DOMAIN transform = Handles /\ DOMAIN velocity = Handles
    /\ \A p \in Handles : Len(usedInputs[p]) = frame
    /\ \A p \in LocalPlayers : Len(confirmedInputs[p]) = frame
    /\ firstIncorrect \in (0 .. (frame - 1)) \cup {NULL_FRAME}
    /\ DOMAIN snaps = 0 .. (frame - 1)

\* ---------------------------------------------------------------- claims
\* the InputFrame of frame t made of confirmed samples only
ConfirmedFrame(t, conf) == [p \in DOMAIN conf |-> <<conf[p][t + 1], "Confirmed">>]

\* the reference run: the state of frame t when every frame before it is
\* simulated once, from setup, with the confirmed samples
RECURSIVE ReferenceRun(_, _, _, _)
ReferenceRun(st, s, t, conf) ==
    IF s >= t THEN st
    ELSE ReferenceRun(GgrsSchedule(st, ConfirmedFrame(s, conf)), s + 1, t, conf)

\* the state the session holds for frame t: the saved one, or the current one
StateAt(t) == IF t = frame THEN World ELSE snaps[t]

\* frame t and every frame before it has all its confirmed samples
ConfirmedBefore(t) == \A p \in Handles : Len(confirmedInputs[p]) >= t

\* C1: misprediction convergence.  Every frame whose earlier inputs are all
\* confirmed, and which is not after a misprediction still waiting for its
\* rollback, holds the state of the reference run that had the confirmed
\* inputs from the start; so after a rollback every replayed frame does.
C1_Convergence ==
    \A t \in 0 .. frame :
        (ConfirmedBefore(t) /\ (firstIncorrect = NULL_FRAME \/ t <= firstIncorrect))
            => StateAt(t) = ReferenceRun(setup(players_num), 0, t, confirmedInputs)

\* a rollback over at least two frames has just been replayed, every input is
\* confirmed, and a remote player has moved
C1_Witness ==
    /\ lastRollback # NULL_FRAME
    /\ frame - lastRollback >= 3
    /\ ConfirmedBefore(frame)
    /\ \E p \in RemotePlayers : transform[p] # setup(players_num).transform[p]

\* C2: the frame changes by +1 only, and a step that changes it leaves the
\* simulation exactly one tick (1 / RollbackFps s of motion at the new
\* velocity) after the state saved for the frame it simulated.
C2_TickByOne ==
    [][/\ frame' = frame \/ frame' = frame + 1
       /\ frame' = frame + 1 =>
            /\ frame \in DOMAIN snaps'
            /\ \A p \in Handles :
                 /\ (transform'[p].x - snaps'[frame].transform[p].x) * RollbackFps
                        = velocity'[p].x * UPS
                 /\ (transform'[p].y - snaps'[frame].transform[p].y) * RollbackFps
                        = velocity'[p].y * UPS]_vars

\* a frame was advanced in the same call that rolled back, with a player moving
C2_Witness ==
    /\ frame >= 2
    /\ lastRollback # NULL_FRAME
    /\ \E p \in Handles : velocity[p].x # 0 \/ velocity[p].y # 0

\* the keys a velocity stands for: one direction per axis sign.  The 16
\* keyboard states decode to 9 pairs of intents, so no reading of the intents
\* as keys gives every state back; this one is right wherever one exists.
ControlsOf(v) ==
    {k \in Keys : \/ k = "ArrowUp" /\ v.y > 0
                  \/ k = "ArrowDown" /\ v.y < 0
                  \/ k = "ArrowRight" /\ v.x > 0
                  \/ k = "ArrowLeft" /\ v.x < 0}

Opposing(ks) == {"ArrowUp", "ArrowDown"} \subseteq ks \/ {"ArrowRight", "ArrowLeft"} \subseteq ks

\* C8 as stated: what handle_players decodes from the sample of a local
\* player gives back the keyboard state that was encoded.
C8_DecodeInvertsEncode ==
    frame > 0 => \A p \in LocalPlayers : ControlsOf(velocity[p]) = keys

\* C8 amended: the four bits handle_players extracts are the four pressed
\* flags, the per-axis intents are up - down and right - left, and they give
\* back the keyboard state when no two opposing keys are pressed together.
C8_RoundTrip ==
    frame > 0 => \A p \in LocalPlayers :
        /\ DecodeBits(localInputs[p]) =
              [up |-> Pressed(keys, "ArrowUp"), down |-> Pressed(keys, "ArrowDown"),
               right |-> Pressed(keys, "ArrowRight"), left |-> Pressed(keys, "ArrowLeft")]
        /\ velocity[p].y =
              (Pressed(keys, "ArrowUp") - Pressed(keys, "ArrowDown")) * PLAYER_SPEED
        /\ velocity[p].x =
              (Pressed(keys, "ArrowRight") - Pressed(keys, "ArrowLeft")) * PLAYER_SPEED
        /\ ~Opposing(keys) => ControlsOf(velocity[p]) = keys

\* up and left were pressed and a local player moves up and to the left
C8_Witness ==
    /\ frame > 0
    /\ keys = {"ArrowUp", "ArrowLeft"}
    /\ \E p \in LocalPlayers : velocity[p] = [x |-> 0 - PLAYER_SPEED, y |-> PLAYER_SPEED]

\* C11: a session exists only for a player list with at least one entry; the
\* players spawned from num_players() and the session's input queues are the
\* handles 0 .. (number of entries - 1), entry i being handle i; and neither
\* the list nor the handles of the entities change afterwards.
C11_PlayerList ==
    /\ [](session = "P2P" =>
            /\ Len(players) >= 1
            /\ Cardinality(DOMAIN transform) = Len(players)
            /\ DOMAIN transform = 0 .. (Len(players) - 1)
            /\ DOMAIN velocity = DOMAIN transform
            /\ DOMAIN confirmedInputs = DOMAIN transform
            /\ DOMAIN localInputs \subseteq {i \in DOMAIN transform : players[i + 1] = "localhost"})
    /\ [][/\ players' = players
          /\ session' = session
          /\ DOMAIN transform' = DOMAIN transform]_vars

\* a two-entry list whose first entry is remote, after a tick: handle 1 is the local one
C11_Witness ==
    /\ session = "P2P"
    /\ players = <<"remote", "localhost">>
    /\ frame >= 1
    /\ DOMAIN localInputs = {1}
    /\ DOMAIN transform = {0, 1}

\* the InputFrame frame t was last simulated with
UsedFrame(t) == [p \in Handles |-> <<usedInputs[p][t + 1], "Used">>]

\* a second run: from state st, standing for frame s, frame by frame up to the
\* current frame with the InputFrames the first run used; it agrees when st
\* and every state after it is the one the session holds for that frame
RECURSIVE ReplayAgrees(_, _)
ReplayAgrees(st, s) ==
    /\ st = StateAt(s)
    /\ s < frame => LET next == GgrsSchedule(st, UsedFrame(s))
                    IN ReplayAgrees(next, s + 1)

DecodedFlag(wasd, key) ==
    CASE key = "ArrowUp" -> DecodeBits(wasd).up
      [] key = "ArrowDown" -> DecodeBits(wasd).down
      [] key = "ArrowRight" -> DecodeBits(wasd).right
      [] key = "ArrowLeft" -> DecodeBits(wasd).left

\* C17: every sample read_local_inputs writes has bits 4 to 7 clear, is the
\* sum of one distinct bit (1, 2, 4, 8) per pressed key, and the bit of each
\* key is the one handle_players reads for that key.
C17_OneBitPerControl ==
    frame > 0 => \A p \in DOMAIN localInputs :
        /\ \A k \in 4 .. 7 : Bit(localInputs[p], k) = 0
        /\ localInputs[p] =
              Pressed(keys, "ArrowUp") + 2 * Pressed(keys, "ArrowDown")
                + 4 * Pressed(keys, "ArrowRight") + 8 * Pressed(keys, "ArrowLeft")
        /\ \A key \in Keys : DecodedFlag(localInputs[p], key) = Pressed(keys, key)

\* all four keys pressed: the sample of a local player is 15
C17_Witness ==
    /\ frame > 0
    /\ keys = Keys
    /\ \E p \in DOMAIN localInputs : localInputs[p] = 15

\* C18: in every simulated frame s, first run or resimulation, the position
\* moves by the velocity of frame s's own InputFrame for 1 / RollbackFps s,
\* not by the velocity left over from frame s - 1.
C18_OwnFrameVelocity ==
    \A s \in DOMAIN snaps : \A p \in Handles :
        s < frame =>
            /\ (StateAt(s + 1).transform[p].x - snaps[s].transform[p].x) * RollbackFps
                  = DecodeAxes(usedInputs[p][s + 1]).x * PLAYER_SPEED * UPS
            /\ (StateAt(s + 1).transform[p].y - snaps[s].transform[p].y) * RollbackFps
                  = DecodeAxes(usedInputs[p][s + 1]).y * PLAYER_SPEED * UPS

\* after a rollback, a frame whose velocity differs from the one left over
\* from the frame before it
C18_Witness ==
    /\ lastRollback # NULL_FRAME
    /\ \E s \in DOMAIN snaps : \E p \in Handles :
         /\ 1 <= s /\ s < frame
         /\ snaps[s].velocity[p] # StateAt(s + 1).velocity[p]
         /\ snaps[s].velocity[p] # [x |-> 0, y |-> 0]

\* C19: after a tick, every player's velocity is decided by the sample of that
\* tick alone: y = (bit 0 - bit 1) * 200 and x = (bit 2 - bit 3) * 200, each
\* axis in {-200, 0, 200}, opposing directions cancelling, bits 4 to 7 and the
\* velocity before the tick having no effect, for every one of the 256 bytes.
C19_VelocityFromSample ==
    frame > 0 => \A p \in Handles :
        LET w == playerInputs[p][1]
            low == w % 16
        IN /\ w \in 0 .. 255
           /\ velocity[p].y = (Bit(w, 0) - Bit(w, 1)) * PLAYER_SPEED
           /\ velocity[p].x = (Bit(w, 2) - Bit(w, 3)) * PLAYER_SPEED
           /\ velocity[p].y = (Bit(low, 0) - Bit(low, 1)) * PLAYER_SPEED
           /\ velocity[p].x = (Bit(low, 2) - Bit(low, 3)) * PLAYER_SPEED
           /\ velocity[p].x \in {0 - PLAYER_SPEED, 0, PLAYER_SPEED}
           /\ velocity[p].y \in {0 - PLAYER_SPEED, 0, PLAYER_SPEED}
           /\ (Bit(w, 0) = Bit(w, 1)) => velocity[p].y = 0
           /\ (Bit(w, 2) = Bit(w, 3)) => velocity[p].x = 0

\* the byte 245 (bits 0 and 2, and all of bits 4 to 7) moves its player up and right
C19_Witness ==
    /\ frame > 0
    /\ \E p \in Handles :
         /\ playerInputs[p][1] = 245
         /\ velocity[p] = [x |-> PLAYER_SPEED, y |-> PLAYER_SPEED]

\* C20: after a tick, LocalInputs has exactly one entry per local handle and
\* none for a remote handle, every entry is the same sample, and so two local
\* players have had identical inputs in every frame so far.
C20_LocalInputsAlike ==
    frame > 0 =>
        /\ DOMAIN localInputs = {i \in Handles : players[i + 1] = "localhost"}
        /\ \A p \in Handles : players[p + 1] # "localhost" => p \notin DOMAIN localInputs
        /\ \A p, q \in DOMAIN localInputs :
             /\ localInputs[p] = localInputs[q]
             /\ playerInputs[p] = playerInputs[q]
             /\ confirmedInputs[p] = confirmedInputs[q]
             /\ Len(confirmedInputs[p]) = frame

\* two local players after two ticks with different keys: the same two samples each
C20_Witness ==
    /\ players = <<"localhost", "localhost">>
    /\ frame = 2
    /\ confirmedInputs[0] = <<9, 4>>
    /\ confirmedInputs[1] = <<9, 4>>
    /\ localInputs = (0 :> 4 @@ 1 :> 4)

====
